---- MODULE Spec2Model ----
(***************************************************************************)
(* The points-escrow ledger and moderation workflow of src/lib/api.ts,     *)
(* together with its reads, the item page's redemption handler, the       *)
(* listing form and the impact dashboard.                                  *)
(*                                                                         *)
(* The Firestore collections are the state: users, items, swapOrders and   *)
(* pointsTransactions.  runTransaction is modelled as the SDK runs it: the *)
(* update function reads documents one at a time (each read is a step and  *)
(* records the version it saw), buffers its writes, and the commit applies *)
(* all writes in one step provided every document read still has the       *)
(* version that was read; otherwise the update function is run again.  An  *)
(* error thrown by the update function ends the call without any write.    *)
(* The store is taken to accept a read that follows a buffered write, as   *)
(* moderateItem issues it, and to give up after MaxAttempts refusals.      *)
(***************************************************************************)
EXTENDS Integers, Sequences, FiniteSets, TLC

VARIABLES users, items, orders, log, tx, page, dashboard, nops

vars == <<users, items, orders, log, tx, page, dashboard, nops>>

(* ---------------------------------------------------------------------- *)
(* Bounds and inputs                                                       *)
(* ---------------------------------------------------------------------- *)

\* number of calls that may write the store in one behaviour
MaxOps == 2

Users == {"u1", "u2"}

ItemIds == {"i1", "i2"}

Procs == {"p1", "p2"}

\* an optional number is a set with at most one element ({} is undefined)
Undefined == {}

\* pointValue a listing form can carry (undefined for direct-swap-only)
PointValues == {Undefined, {60}, {150}}

\* pointsAmount an order request can carry
OrderAmounts == {Undefined, {60}, {150}}

\* amounts of a ledger credit (amount > 0)
PositiveAmounts == {50}

\* amounts an awardPoints call can be given
AwardAmounts == {-30, 0, 50}

\* points value a createUser request can carry
CarriedPoints == {500}

\* status an order request or a listing form can carry
CarriedStatus == {"completed"}

\* sellerId an order request can carry: the caller names any account; u2
\* agrees with the owner of some listings and disagrees with others
SellerInputs == {"u2"}

\* payloads of updateItem: a field of the listing and its new value
ItemUpdates ==
    {<<"pointValue", {150}>>, <<"images", {}>>, <<"status", {"approved"}>>,
     <<"status", {"in-transit"}>>}

\* payloads of updateUser
UserUpdates == {<<"name", {}>>, <<"points", {500}>>}

\* payloads of updateSwapOrder
OrderUpdates == {<<"status", {"completed"}>>, <<"status", {"disputed"}>>}

NoteInputs == {"undefined", "low quality images"}

\* the files a listing form can hold: an image, a file that is not an image,
\* an image above the 5MB limit
FormFiles == {<<>>, <<"image">>, <<"image", "image">>, <<"image", "text">>, <<"huge">>}

\* attempts runTransaction makes before it gives up (the SDK's default is 5)
MaxAttempts == 5

\* largest userItemCount the impact dashboard is given
MaxItemCount == 60

WelcomeBonus == 100

ApprovalReward == 50

(* ---------------------------------------------------------------------- *)
(* Documents                                                               *)
(* ---------------------------------------------------------------------- *)

NoUserDoc == [exists |-> FALSE, points |-> 0, ver |-> 0]

NoItemDoc ==
    [exists |-> FALSE, ownerId |-> "", pointValue |-> Undefined, status |-> "",
     moderationNotes |-> "", riskScore |-> 0, images |-> {}, ver |-> 0]

NoPage ==
    [loaded |-> FALSE, uid |-> "", points |-> 0, itemId |-> "", ownerId |-> "",
     pointValue |-> Undefined, status |-> "", error |-> ""]

\* a number with a fractional part, as the quotient num / den (den > 0)
Q(num, den) == [num |-> num, den |-> den]

ZeroMetrics == [co2Saved |-> Q(0, 1), waterSaved |-> Q(0, 1), wasteDiverted |-> Q(0, 1)]

\* the impact dashboard: its userItemCount prop and its userMetrics state
NoDashboard == [userItemCount |-> 0, rendered |-> FALSE, userMetrics |-> ZeroMetrics]

IdleTx ==
    [pc |-> "idle", op |-> "", userId |-> "", itemId |-> "", sellerId |-> "",
     pointsAmount |-> Undefined, status |-> "", approved |-> FALSE, amount |-> 0,
     notes |-> "", userSnap |-> NoUserDoc, itemSnap |-> NoItemDoc,
     attempts |-> 0, error |-> "", message |-> "", orderId |-> 0,
     files |-> <<>>, result |-> <<>>]

\* x || 0 for an optional number
OrZero(x) == IF x = Undefined \/ x = {0} THEN 0 ELSE CHOOSE v \in x : TRUE

\* notes || ""
OrEmpty(n) == IF n = "undefined" THEN "" ELSE n

\* !x for an optional number
Falsy(x) == x = Undefined \/ x = {0}

RECURSIVE SumAmounts(_, _)
SumAmounts(s, u) ==
    IF s = <<>> THEN 0
    ELSE (IF Head(s).userId = u THEN Head(s).amount ELSE 0) + SumAmounts(Tail(s), u)

\* the message createSwapOrder, awardPoints and moderateItem rethrow for an
\* error caught from runTransaction; code is "" for a plain Error (the
\* default case keeps only the prefix of "Firebase Error: <message>")
handleApiError(code, message) ==
    IF code # ""
    THEN CASE code = "permission-denied" -> "You don't have permission to perform this action"
           [] code = "not-found" -> "The requested resource was not found"
           [] code = "already-exists" -> "This resource already exists"
           [] code = "failed-precondition" -> "Operation failed due to invalid state"
           [] code = "unavailable" -> "Service is temporarily unavailable. Please try again"
           [] OTHER -> "Firebase Error"
    ELSE "An unexpected error occurred"

(* ---------------------------------------------------------------------- *)
(* Transaction plumbing                                                    *)
(* ---------------------------------------------------------------------- *)

InFlight == Cardinality({p \in Procs : tx[p].pc \notin {"idle", "done"}})

\* a caller starts a call; nops counts the calls that have written the store
CanStart(p) == tx[p].pc = "idle" /\ nops + InFlight < MaxOps

\* the caller has taken the result of its call
Return(p) ==
    /\ tx[p].pc = "done"
    /\ tx' = [tx EXCEPT ![p] = IdleTx]
    /\ UNCHANGED <<users, items, orders, log, page, dashboard, nops>>

\* what a call leaves behind for its caller once it has returned or thrown
Ended(t) == [IdleTx EXCEPT !.pc = "done", !.op = t.op, !.userId = t.userId,
                           !.itemId = t.itemId, !.attempts = t.attempts]

\* the update function throws: the call ends, nothing is written
Throw(p, err) ==
    /\ tx' = [tx EXCEPT ![p] = [Ended(@) EXCEPT !.error = err,
                                               !.message = handleApiError("", err)]]
    /\ UNCHANGED <<users, items, orders, log, page, dashboard, nops>>

\* the codes of the error the store reports for a commit it refuses
ContentionCodes == {"aborted", "failed-precondition"}

\* mutant: the attempts are not counted
Retry_Forever(p, first) ==
    /\ tx' = [tx EXCEPT ![p] = [@ EXCEPT !.pc = first,
                                        !.userSnap = NoUserDoc, !.itemSnap = NoItemDoc]]
    /\ UNCHANGED <<users, items, orders, log, page, dashboard, nops>>

\* the commit is refused because a document read has changed: runTransaction
\* runs the update function again, and after MaxAttempts attempts it rejects
\* with the error of the last refusal (attempts counts the refusals)
Retry(p, first) ==
    /\ IF tx[p].attempts + 1 < MaxAttempts
       THEN tx' = [tx EXCEPT ![p] = [@ EXCEPT !.pc = first, !.attempts = @ + 1,
                                           !.userSnap = NoUserDoc,
                                           !.itemSnap = NoItemDoc]]
       ELSE \E code \in ContentionCodes :
               tx' = [tx EXCEPT ![p] = [Ended(@) EXCEPT !.attempts = @ + 1,
                                                      !.error = code,
                                                      !.message = handleApiError(code, "")]]
    /\ UNCHANGED <<users, items, orders, log, page, dashboard, nops>>

Finished(t) == [Ended(t) EXCEPT !.error = "none"]

UserFresh(p) == users[tx[p].userId].ver = tx[p].userSnap.ver

ItemFresh(p) == items[tx[p].itemId].ver = tx[p].itemSnap.ver

(* ---------------------------------------------------------------------- *)
(* createUser                                                              *)
(* ---------------------------------------------------------------------- *)

StartCreateUser(p) ==
    /\ CanStart(p)
    /\ \E u \in Users, carried \in CarriedPoints :
          tx' = [tx EXCEPT ![p] = [IdleTx EXCEPT !.pc = "cu_get", !.op = "createUser",
                                                  !.userId = u, !.amount = carried]]
    /\ UNCHANGED <<users, items, orders, log, page, dashboard, nops>>

CreateUserGet(p) ==
    /\ tx[p].pc = "cu_get"
    /\ tx' = [tx EXCEPT ![p] = [@ EXCEPT !.pc = "cu_commit",
                                        !.userSnap = users[tx[p].userId]]]
    /\ UNCHANGED <<users, items, orders, log, page, dashboard, nops>>

\* the document createUser sets: userData with points overridden by the bonus
NewUserDoc(userData) == [userData EXCEPT !.exists = TRUE, !.points = WelcomeBonus, !.ver = 1]

\* mutant: the account is set without looking at the document read
CreateUserCommit_Overwrites(p) ==
    /\ tx[p].pc = "cu_commit"
    /\ UserFresh(p)
    /\ users' = [users EXCEPT ![tx[p].userId] =
                    NewUserDoc([NoUserDoc EXCEPT !.points = tx[p].amount])]
    /\ nops' = IF tx[p].userSnap.exists THEN nops ELSE nops + 1
    /\ tx' = [tx EXCEPT ![p] = Finished(@)]
    /\ UNCHANGED <<items, orders, log, page, dashboard>>

CreateUserCommit(p) ==
    /\ tx[p].pc = "cu_commit"
    /\ UserFresh(p)
    /\ users' = IF tx[p].userSnap.exists THEN users
                ELSE [users EXCEPT ![tx[p].userId] =
                                 NewUserDoc([NoUserDoc EXCEPT !.points = tx[p].amount])]
    /\ nops' = IF tx[p].userSnap.exists THEN nops ELSE nops + 1
    /\ tx' = [tx EXCEPT ![p] = Finished(@)]
    /\ UNCHANGED <<items, orders, log, page, dashboard>>

CreateUserRetry(p) ==
    /\ tx[p].pc = "cu_commit"
    /\ ~UserFresh(p)
    /\ Retry(p, "cu_get")

(* ---------------------------------------------------------------------- *)
(* createItem                                                              *)
(* ---------------------------------------------------------------------- *)

\* addDoc generates an id no document has yet
FreshItemIds == {i \in ItemIds : ~items[i].exists}

NextItemId == IF "i1" \in FreshItemIds THEN "i1" ELSE "i2"

\* the document createItem adds: itemData with status and riskScore overridden
NewItemDoc(itemData) ==
    [itemData EXCEPT !.exists = TRUE, !.status = "pending", !.riskScore = 0, !.ver = 1]

CreateItem ==
    /\ nops + InFlight < MaxOps
    /\ FreshItemIds # {}
    /\ \E o \in Users, pv \in PointValues, st \in CarriedStatus :
          items' = [items EXCEPT ![NextItemId] =
                       NewItemDoc([NoItemDoc EXCEPT !.ownerId = o, !.pointValue = pv,
                                                    !.status = st, !.riskScore = 7])]
    /\ nops' = nops + 1
    /\ UNCHANGED <<users, orders, log, tx, page, dashboard>>

(* ---------------------------------------------------------------------- *)
(* updateItem                                                              *)
(* ---------------------------------------------------------------------- *)

\* updateDoc merges the payload into the document
Updated(doc, field, value) ==
    CASE field = "pointValue" -> [doc EXCEPT !.pointValue = value, !.ver = @ + 1]
      [] field = "status" -> [doc EXCEPT !.status = CHOOSE v \in value : TRUE,
                                         !.ver = @ + 1]
      [] field = "images" -> [doc EXCEPT !.images = value, !.ver = @ + 1]
      [] OTHER -> [doc EXCEPT !.ver = @ + 1]

UpdateItem ==
    /\ nops + InFlight < MaxOps
    /\ \E i \in ItemIds, upd \in ItemUpdates :
          /\ items[i].exists
          /\ items' = [items EXCEPT ![i] = Updated(@, upd[1], upd[2])]
    /\ nops' = nops + 1
    /\ UNCHANGED <<users, orders, log, tx, page, dashboard>>

(* ---------------------------------------------------------------------- *)
(* updateUser and updateSwapOrder                                          *)
(* ---------------------------------------------------------------------- *)

\* updateDoc merges the payload and lastActive into the user document
UpdatedUser(doc, field, value) ==
    CASE field = "points" -> [doc EXCEPT !.points = CHOOSE v \in value : TRUE,
                                         !.ver = @ + 1]
      [] OTHER -> [doc EXCEPT !.ver = @ + 1]

UpdateUser ==
    /\ nops + InFlight < MaxOps
    /\ \E u \in Users, upd \in UserUpdates :
          /\ users[u].exists
          /\ users' = [users EXCEPT ![u] = UpdatedUser(@, upd[1], upd[2])]
    /\ nops' = nops + 1
    /\ UNCHANGED <<items, orders, log, tx, page, dashboard>>

UpdatedOrder(order, field, value) ==
    CASE field = "status" -> [order EXCEPT !.status = CHOOSE v \in value : TRUE]
      [] OTHER -> order

\* mutant: the buyer is refunded when the order is updated
UpdateSwapOrder_Refunds ==
    /\ nops + InFlight < MaxOps
    /\ \E o \in 1..Len(orders), upd \in OrderUpdates :
          /\ orders' = [orders EXCEPT ![o] = UpdatedOrder(@, upd[1], upd[2])]
          /\ users' = [users EXCEPT ![orders[o].buyerId] =
                          [@ EXCEPT !.points = @ + OrZero(orders[o].pointsAmount),
                                    !.ver = @ + 1]]
          /\ log' = Append(log, [userId |-> orders[o].buyerId,
                                 amount |-> OrZero(orders[o].pointsAmount),
                                 type |-> "refunded", relatedOrderId |-> o])
    /\ nops' = nops + 1
    /\ UNCHANGED <<items, tx, page, dashboard>>

UpdateSwapOrder ==
    /\ nops + InFlight < MaxOps
    /\ \E o \in 1..Len(orders), upd \in OrderUpdates :
          orders' = [orders EXCEPT ![o] = UpdatedOrder(@, upd[1], upd[2])]
    /\ nops' = nops + 1
    /\ UNCHANGED <<users, items, log, tx, page, dashboard>>

(* ---------------------------------------------------------------------- *)
(* awardPoints                                                             *)
(* ---------------------------------------------------------------------- *)

StartAwardPoints(p, amounts) ==
    /\ CanStart(p)
    /\ \E u \in Users, a \in amounts :
          tx' = [tx EXCEPT ![p] = [IdleTx EXCEPT !.pc = "ap_get", !.op = "awardPoints",
                                                  !.userId = u, !.amount = a]]
    /\ UNCHANGED <<users, items, orders, log, page, dashboard, nops>>

AwardPointsGet(p) ==
    /\ tx[p].pc = "ap_get"
    /\ users[tx[p].userId].exists
    /\ tx' = [tx EXCEPT ![p] = [@ EXCEPT !.pc = "ap_commit",
                                        !.userSnap = users[tx[p].userId]]]
    /\ UNCHANGED <<users, items, orders, log, page, dashboard, nops>>

\* mutant: the account is created when it is missing
AwardPointsNoUser_Upserts(p) ==
    /\ tx[p].pc = "ap_get"
    /\ ~users[tx[p].userId].exists
    /\ users' = [users EXCEPT ![tx[p].userId] =
                    [NoUserDoc EXCEPT !.exists = TRUE, !.points = tx[p].amount, !.ver = 1]]
    /\ log' = Append(log, [userId |-> tx[p].userId, amount |-> tx[p].amount,
                           type |-> "earned", relatedOrderId |-> 0])
    /\ tx' = [tx EXCEPT ![p] = Finished(@)]
    /\ UNCHANGED <<items, orders, page, dashboard, nops>>

AwardPointsNoUser(p) ==
    /\ tx[p].pc = "ap_get"
    /\ ~users[tx[p].userId].exists
    /\ Throw(p, "User not found")

EarnedRecord(u, a) == [userId |-> u, amount |-> a, type |-> "earned", relatedOrderId |-> 0]

AwardPointsCommit(p) ==
    /\ tx[p].pc = "ap_commit"
    /\ UserFresh(p)
    /\ users' = [users EXCEPT ![tx[p].userId] =
                    [@ EXCEPT !.points = tx[p].userSnap.points + tx[p].amount,
                              !.ver = @ + 1]]
    /\ log' = Append(log, EarnedRecord(tx[p].userId, tx[p].amount))
    /\ tx' = [tx EXCEPT ![p] = Finished(@)]
    /\ nops' = nops + 1
    /\ UNCHANGED <<items, orders, page, dashboard>>

AwardPointsRetry(p) ==
    /\ tx[p].pc = "ap_commit"
    /\ ~UserFresh(p)
    /\ Retry(p, "ap_get")

(* ---------------------------------------------------------------------- *)
(* createSwapOrder                                                         *)
(* ---------------------------------------------------------------------- *)

\* the call itself: orderData is whatever the caller passes
SwapRequest(item, buyer, seller, amt, st) ==
    [IdleTx EXCEPT !.pc = "cso_getBuyer", !.op = "createSwapOrder", !.itemId = item,
                   !.userId = buyer, !.sellerId = seller, !.pointsAmount = amt,
                   !.status = st]

CallCreateSwapOrder(p, item, buyer, seller, amt, st) ==
    /\ CanStart(p)
    /\ tx' = [tx EXCEPT ![p] = SwapRequest(item, buyer, seller, amt, st)]
    /\ UNCHANGED nops

StartCreateSwapOrder(p) ==
    /\ \E i \in ItemIds, b \in Users, s \in SellerInputs, a \in OrderAmounts, st \in CarriedStatus :
          CallCreateSwapOrder(p, i, b, s, a, st)
    /\ UNCHANGED <<users, items, orders, log, page, dashboard>>

pointsNeeded(p) == OrZero(tx[p].pointsAmount)

SwapBuyerNotFound(p) ==
    /\ tx[p].pc = "cso_getBuyer"
    /\ ~users[tx[p].userId].exists
    /\ Throw(p, "Buyer not found")

SwapInsufficient(p) ==
    /\ tx[p].pc = "cso_getBuyer"
    /\ users[tx[p].userId].exists
    /\ users[tx[p].userId].points < pointsNeeded(p)
    /\ Throw(p, "Insufficient points")

\* mutant: the balance check is missing
SwapGetBuyer_NoCheck(p) ==
    /\ tx[p].pc = "cso_getBuyer"
    /\ users[tx[p].userId].exists
    /\ tx' = [tx EXCEPT ![p] = [@ EXCEPT !.pc = "cso_getItem",
                                        !.userSnap = users[tx[p].userId]]]
    /\ UNCHANGED <<users, items, orders, log, page, dashboard, nops>>

SwapGetBuyer(p) ==
    /\ tx[p].pc = "cso_getBuyer"
    /\ users[tx[p].userId].exists
    /\ ~(users[tx[p].userId].points < pointsNeeded(p))
    /\ tx' = [tx EXCEPT ![p] = [@ EXCEPT !.pc = "cso_getItem",
                                        !.userSnap = users[tx[p].userId]]]
    /\ UNCHANGED <<users, items, orders, log, page, dashboard, nops>>

SwapItemNotFound(p) ==
    /\ tx[p].pc = "cso_getItem"
    /\ ~items[tx[p].itemId].exists
    /\ Throw(p, "Item not found")

\* mutant: the buyer is debited before the listing is checked
SwapItemNotAvailable_Debited(p) ==
    /\ tx[p].pc = "cso_getItem"
    /\ items[tx[p].itemId].exists
    /\ items[tx[p].itemId].status # "approved"
    /\ users' = [users EXCEPT ![tx[p].userId] =
                    [@ EXCEPT !.points = @ - pointsNeeded(p), !.ver = @ + 1]]
    /\ tx' = [tx EXCEPT ![p] = [Ended(@) EXCEPT !.error = "Item not available",
                                               !.message = handleApiError("", "Item not available")]]
    /\ UNCHANGED <<items, orders, log, page, dashboard, nops>>

SwapItemNotAvailable(p) ==
    /\ tx[p].pc = "cso_getItem"
    /\ items[tx[p].itemId].exists
    /\ items[tx[p].itemId].status # "approved"
    /\ Throw(p, "Item not available")

\* mutant: the status of the listing is not checked
SwapGetItem_AnyStatus(p) ==
    /\ tx[p].pc = "cso_getItem"
    /\ items[tx[p].itemId].exists
    /\ tx' = [tx EXCEPT ![p] = [@ EXCEPT !.pc = "cso_commit",
                                        !.itemSnap = items[tx[p].itemId]]]
    /\ UNCHANGED <<users, items, orders, log, page, dashboard, nops>>

SwapGetItem(p) ==
    /\ tx[p].pc = "cso_getItem"
    /\ items[tx[p].itemId].exists
    /\ items[tx[p].itemId].status = "approved"
    /\ tx' = [tx EXCEPT ![p] = [@ EXCEPT !.pc = "cso_commit",
                                        !.itemSnap = items[tx[p].itemId]]]
    /\ UNCHANGED <<users, items, orders, log, page, dashboard, nops>>

\* the order document: orderData with status overridden
NewOrder(t) ==
    [itemId |-> t.itemId, buyerId |-> t.userId, sellerId |-> t.sellerId,
     pointsAmount |-> t.pointsAmount, status |-> "pending"]

SpentRecord(u, a, oid) ==
    [userId |-> u, amount |-> -a, type |-> "spent", relatedOrderId |-> oid]

\* mutant: the listing is read outside the transaction
SwapReadsFresh_NoItem(p) == UserFresh(p)

\* the commit goes through only if the buyer and the listing are as read
SwapReadsFresh(p) == UserFresh(p) /\ ItemFresh(p)

SwapCommit(p) ==
    /\ tx[p].pc = "cso_commit"
    /\ SwapReadsFresh(p)
    /\ orders' = Append(orders, NewOrder(tx[p]))
    /\ users' = [users EXCEPT ![tx[p].userId] =
                    [@ EXCEPT !.points = tx[p].userSnap.points - pointsNeeded(p),
                              !.ver = @ + 1]]
    /\ log' = Append(log, SpentRecord(tx[p].userId, pointsNeeded(p), Len(orders) + 1))
    /\ items' = [items EXCEPT ![tx[p].itemId] =
                    [@ EXCEPT !.status = "in-transit", !.ver = @ + 1]]
    /\ tx' = [tx EXCEPT ![p] = [Finished(@) EXCEPT !.orderId = Len(orders) + 1]]
    /\ nops' = nops + 1
    /\ UNCHANGED <<page, dashboard>>

SwapRetry(p) ==
    /\ tx[p].pc = "cso_commit"
    /\ ~SwapReadsFresh(p)
    /\ Retry(p, "cso_getBuyer")

(* ---------------------------------------------------------------------- *)
(* moderateItem                                                            *)
(* ---------------------------------------------------------------------- *)

StartModerateItem(p) ==
    /\ CanStart(p)
    /\ \E i \in ItemIds, a \in BOOLEAN, n \in NoteInputs :
          tx' = [tx EXCEPT ![p] = [IdleTx EXCEPT !.pc = "mod_getItem",
                                      !.op = "moderateItem", !.itemId = i,
                                      !.approved = a, !.notes = n]]
    /\ UNCHANGED <<users, items, orders, log, page, dashboard, nops>>

ModerateNotFound(p) ==
    /\ tx[p].pc = "mod_getItem"
    /\ ~items[tx[p].itemId].exists
    /\ Throw(p, "Item not found")

ModerateGetItem(p) ==
    /\ tx[p].pc = "mod_getItem"
    /\ items[tx[p].itemId].exists
    /\ tx' = [tx EXCEPT ![p] = [@ EXCEPT !.pc = IF tx[p].approved THEN "mod_getOwner"
                                                                 ELSE "mod_commit",
                                        !.itemSnap = items[tx[p].itemId],
                                        !.userId = items[tx[p].itemId].ownerId]]
    /\ UNCHANGED <<users, items, orders, log, page, dashboard, nops>>

ModerateGetOwner(p) ==
    /\ tx[p].pc = "mod_getOwner"
    /\ tx' = [tx EXCEPT ![p] = [@ EXCEPT !.pc = "mod_commit",
                                        !.userSnap = users[tx[p].userId]]]
    /\ UNCHANGED <<users, items, orders, log, page, dashboard, nops>>

\* mutant: the owner is read outside the transaction
ModerateReadsFresh_ItemOnly(p) == ItemFresh(p)

ModerateReadsFresh(p) == ItemFresh(p) /\ (tx[p].approved => UserFresh(p))

\* mutant: the ternary is inverted for a rejection
ModeratedStatus_Approves(approved) == "approved"

\* the status moderateItem writes
ModeratedStatus(approved) == IF approved THEN "approved" ELSE "rejected"

\* mutant: the reward does not depend on the owner document
RewardsOwner_Always(t) == t.approved

\* mutant: only the approval of a pending listing is rewarded
RewardsOwner_PendingOnly(t) ==
    t.approved /\ t.userSnap.exists /\ t.itemSnap.status = "pending"

\* mutant: the reward is forgotten
RewardsOwner_Never(t) == FALSE

\* does moderateItem credit the owner
RewardsOwner(t) == t.approved /\ t.userSnap.exists

ModerateCommit(p) ==
    /\ tx[p].pc = "mod_commit"
    /\ ModerateReadsFresh(p)
    /\ items' = [items EXCEPT ![tx[p].itemId] =
                    [@ EXCEPT !.status = ModeratedStatus(tx[p].approved),
                              !.moderationNotes = OrEmpty(tx[p].notes),
                              !.ver = @ + 1]]
    /\ IF RewardsOwner(tx[p])
       THEN /\ users' = [users EXCEPT ![tx[p].userId] =
                            [@ EXCEPT !.points = tx[p].userSnap.points + ApprovalReward,
                                      !.ver = @ + 1]]
            /\ log' = Append(log, EarnedRecord(tx[p].userId, ApprovalReward))
       ELSE UNCHANGED <<users, log>>
    /\ tx' = [tx EXCEPT ![p] = Finished(@)]
    /\ nops' = nops + 1
    /\ UNCHANGED <<orders, page, dashboard>>

ModerateRetry(p) ==
    /\ tx[p].pc = "mod_commit"
    /\ ~ModerateReadsFresh(p)
    /\ Retry(p, "mod_getItem")

(* ---------------------------------------------------------------------- *)
(* The item page: loadItemData and handleSwapRequest                       *)
(* ---------------------------------------------------------------------- *)

\* the page keeps the copies of the listing and of the signed-in user it
\* loaded; they are not refreshed before the request
LoadItemData ==
    /\ \E u \in Users, i \in ItemIds :
          /\ users[u].exists
          /\ items[i].exists
          /\ page' = [NoPage EXCEPT !.loaded = TRUE, !.uid = u, !.points = users[u].points,
                                    !.itemId = i, !.ownerId = items[i].ownerId,
                                    !.pointValue = items[i].pointValue,
                                    !.status = items[i].status]
    /\ UNCHANGED <<users, items, orders, log, tx, dashboard, nops>>

isOwner == page.uid = page.ownerId

canRequest == page.loaded /\ ~isOwner /\ page.status = "approved"

\* the button that calls handleSwapRequest is rendered
RedeemButton == canRequest /\ ~Falsy(page.pointValue)

\* the first check of handleSwapRequest; the button is rendered only for a
\* point value that passes it, so no click reaches this branch
HandleSwapNoPointValue ==
    /\ page.loaded
    /\ Falsy(page.pointValue)
    /\ page' = [page EXCEPT !.error = "This item doesn't have a point value set"]
    /\ UNCHANGED <<users, items, orders, log, tx, dashboard, nops>>

HandleSwapInsufficient ==
    /\ RedeemButton
    /\ ~Falsy(page.pointValue)
    /\ page.points < OrZero(page.pointValue)
    /\ page' = [page EXCEPT !.error = "Insufficient points for this item"]
    /\ UNCHANGED <<users, items, orders, log, tx, dashboard, nops>>

HandleSwapRequest(p) ==
    /\ RedeemButton
    /\ ~Falsy(page.pointValue)
    /\ ~(page.points < OrZero(page.pointValue))
    /\ CallCreateSwapOrder(p, page.itemId, page.uid, page.ownerId, page.pointValue,
                           "undefined")
    /\ page' = [page EXCEPT !.error = ""]
    /\ UNCHANGED <<users, items, orders, log, dashboard>>

(* ---------------------------------------------------------------------- *)
(* The listing form: handleSubmit and uploadItemImages                     *)
(* ---------------------------------------------------------------------- *)

\* the images of a listing are kept as the set of their URLs
StartHandleSubmit(p) ==
    /\ CanStart(p)
    /\ \E u \in Users, pv \in PointValues, f \in FormFiles :
          tx' = [tx EXCEPT ![p] = [IdleTx EXCEPT !.pc = "hs_validate", !.op = "handleSubmit",
                                                  !.userId = u, !.pointsAmount = pv,
                                                  !.files = f]]
    /\ UNCHANGED <<users, items, orders, log, page, dashboard, nops>>

SubmitNoImages(p) ==
    /\ tx[p].pc = "hs_validate"
    /\ Len(tx[p].files) = 0
    /\ tx' = [tx EXCEPT ![p] = [Ended(@) EXCEPT !.error = "At least one image is required"]]
    /\ UNCHANGED <<users, items, orders, log, page, dashboard, nops>>

\* createItem({...formData, images: [], ownerId: firebaseUser.uid})
SubmitCreateItem(p) ==
    /\ tx[p].pc = "hs_validate"
    /\ Len(tx[p].files) # 0
    /\ FreshItemIds # {}
    /\ items' = [items EXCEPT ![NextItemId] =
                    NewItemDoc([NoItemDoc EXCEPT !.ownerId = tx[p].userId,
                                                 !.pointValue = tx[p].pointsAmount,
                                                 !.images = {}])]
    /\ tx' = [tx EXCEPT ![p] = [@ EXCEPT !.pc = "hs_upload", !.itemId = NextItemId]]
    /\ nops' = nops + 1
    /\ UNCHANGED <<users, orders, log, page, dashboard>>

\* the error uploadItemImages throws for a file it refuses
FileError(file) ==
    CASE file = "text" -> "File is not an image"
      [] file = "huge" -> "File is too large (max 5MB)"
      [] OTHER -> ""

\* the codes of a failure of uploadBytes or getDownloadURL
StorageCodes == {"storage/unauthorized", "storage/retry-limit-exceeded"}

\* the errors caught by uploadItemImages: the refusal of a file, or the code
\* of a failure of the storage service
UploadErrors(files) ==
    {FileError(files[k]) : k \in {j \in 1..Len(files) : FileError(files[j]) # ""}}
    \cup StorageCodes

\* what handleSubmit is left with when uploadItemImages throws
UploadFailed(t, err) ==
    [Ended(t) EXCEPT !.error = err,
                     !.message = IF err \in StorageCodes THEN handleApiError(err, "")
                                 ELSE handleApiError("", err)]

\* mutant: the listing is deleted when the upload fails
SubmitUploadFails_RollsBack(p) ==
    /\ tx[p].pc = "hs_upload"
    /\ \E err \in UploadErrors(tx[p].files) :
          tx' = [tx EXCEPT ![p] = UploadFailed(@, err)]
    /\ items' = [items EXCEPT ![tx[p].itemId] = NoItemDoc]
    /\ UNCHANGED <<users, orders, log, page, dashboard, nops>>

\* uploadItemImages throws: handleSubmit shows the message and returns
SubmitUploadFails(p) ==
    /\ tx[p].pc = "hs_upload"
    /\ \E err \in UploadErrors(tx[p].files) :
          tx' = [tx EXCEPT ![p] = UploadFailed(@, err)]
    /\ UNCHANGED <<users, items, orders, log, page, dashboard, nops>>

\* the download URLs of the files, in the folder of the listing
ImageUrls(files, itemId) == {<<itemId, k>> : k \in 1..Len(files)}

SubmitUpload(p) ==
    /\ tx[p].pc = "hs_upload"
    /\ \A k \in 1..Len(tx[p].files) : FileError(tx[p].files[k]) = ""
    /\ tx' = [tx EXCEPT ![p] = [@ EXCEPT !.pc = "hs_update",
                                        !.result = <<ImageUrls(tx[p].files,
                                                               tx[p].itemId)>>]]
    /\ UNCHANGED <<users, items, orders, log, page, dashboard, nops>>

\* updateItem(itemId, {images: imageUrls})
SubmitUpdateItem(p) ==
    /\ tx[p].pc = "hs_update"
    /\ items' = [items EXCEPT ![tx[p].itemId] = Updated(@, "images", tx[p].result[1])]
    /\ tx' = [tx EXCEPT ![p] = Finished(@)]
    /\ nops' = nops + 1
    /\ UNCHANGED <<users, orders, log, page, dashboard>>

(* ---------------------------------------------------------------------- *)
(* calculateImpact and the impact dashboard                                *)
(* ---------------------------------------------------------------------- *)

QMul(a, b) == Q(a.num * b.num, a.den * b.den)

QDiv(a, b) == Q(a.num * b.den, a.den * b.num)

\* Math.round: the integer nearest to a, halves rounded up
MathRound(a) == Q((2 * a.num + a.den) \div (2 * a.den), 1)

\* mutant: the values are rounded to whole numbers
calculateImpact_Whole(itemCount) ==
    [co2Saved |-> MathRound(QMul(Q(itemCount, 1), Q(85, 10))),
     waterSaved |-> MathRound(QMul(Q(itemCount, 1), Q(2700, 1))),
     wasteDiverted |-> MathRound(QMul(Q(itemCount, 1), Q(5, 10)))]

\* the products and quotients are multiples of 1/2 and are exact in a double
\* for every count below 2^53 / 2700
calculateImpact(itemCount) ==
    LET CO2_PER_ITEM == Q(85, 10)
        WATER_PER_ITEM == Q(2700, 1)
        WASTE_PER_ITEM == Q(5, 10)
        n == Q(itemCount, 1)
    IN [co2Saved |-> QDiv(MathRound(QMul(QMul(n, CO2_PER_ITEM), Q(10, 1))), Q(10, 1)),
        waterSaved |-> MathRound(QMul(n, WATER_PER_ITEM)),
        wasteDiverted |-> QDiv(MathRound(QMul(QMul(n, WASTE_PER_ITEM), Q(10, 1))), Q(10, 1))]

\* the effect of ImpactDashboard with showPersonal set
RenderImpact ==
    /\ dashboard' = [dashboard EXCEPT !.rendered = TRUE,
                                      !.userMetrics = calculateImpact(dashboard.userItemCount)]
    /\ UNCHANGED <<users, items, orders, log, tx, page, nops>>

\* the parent renders the dashboard with another userItemCount
SetUserItemCount ==
    /\ \E n \in 0..MaxItemCount :
          dashboard' = [dashboard EXCEPT !.userItemCount = n, !.rendered = FALSE]
    /\ UNCHANGED <<users, items, orders, log, tx, page, nops>>

(* ---------------------------------------------------------------------- *)

\* the empty store
SeedEmpty ==
    [users |-> [u \in Users |-> NoUserDoc], items |-> [i \in ItemIds |-> NoItemDoc],
     log |-> <<>>]

\* the store after createUser for u1 and u2, createItem by u1 (pointValue 60)
\* and createItem by u2 (no pointValue: direct swap only)
SeedPending ==
    [users |-> [u \in Users |-> NewUserDoc(NoUserDoc)],
     items |-> [i \in ItemIds |->
                  IF i = "i1"
                  THEN NewItemDoc([NoItemDoc EXCEPT !.ownerId = "u1", !.pointValue = {60}])
                  ELSE NewItemDoc([NoItemDoc EXCEPT !.ownerId = "u2"])],
     log |-> <<>>]

\* SeedPending after moderateItem("i1", true)
SeedApproved ==
    [users |-> [SeedPending.users EXCEPT !["u1"] =
                   [@ EXCEPT !.points = @ + ApprovalReward, !.ver = @ + 1]],
     items |-> [SeedPending.items EXCEPT !["i1"] =
                   [@ EXCEPT !.status = "approved", !.ver = @ + 1]],
     log |-> <<EarnedRecord("u1", ApprovalReward)>>]

Seeds == {SeedEmpty, SeedPending, SeedApproved}

Init ==
    /\ \E s \in Seeds :
          /\ users = s.users
          /\ items = s.items
          /\ log = s.log
    /\ orders = <<>>
    /\ tx = [p \in Procs |-> IdleTx]
    /\ page = NoPage
    /\ dashboard = NoDashboard
    /\ nops = 0

CreateUserStep(p) ==
    \/ StartCreateUser(p)
    \/ CreateUserGet(p)
    \/ CreateUserCommit(p)
    \/ CreateUserRetry(p)

AwardPointsStep(p) ==
    \/ AwardPointsGet(p)
    \/ AwardPointsNoUser(p)
    \/ AwardPointsCommit(p)
    \/ AwardPointsRetry(p)

CreateSwapOrderStep(p) ==
    \/ SwapBuyerNotFound(p)
    \/ SwapInsufficient(p)
    \/ SwapGetBuyer(p)
    \/ SwapItemNotFound(p)
    \/ SwapItemNotAvailable(p)
    \/ SwapGetItem(p)
    \/ SwapCommit(p)
    \/ SwapRetry(p)

ModerateItemStep(p) ==
    \/ StartModerateItem(p)
    \/ ModerateNotFound(p)
    \/ ModerateGetItem(p)
    \/ ModerateGetOwner(p)
    \/ ModerateCommit(p)
    \/ ModerateRetry(p)

Next ==
    \/ CreateItem
    \/ \E p \in Procs :
          \/ Return(p)
          \/ CreateUserStep(p)
          \/ StartAwardPoints(p, PositiveAmounts)
          \/ AwardPointsStep(p)
          \/ StartCreateSwapOrder(p)
          \/ CreateSwapOrderStep(p)
          \/ ModerateItemStep(p)

Spec == Init /\ [][Next]_vars

(* ---------------------------------------------------------------------- *)
(* Sign-up on the empty store: concurrent createUser calls                 *)
(* ---------------------------------------------------------------------- *)

InitSignup ==
    /\ users = SeedEmpty.users
    /\ items = SeedEmpty.items
    /\ log = SeedEmpty.log
    /\ orders = <<>>
    /\ tx = [p \in Procs |-> IdleTx]
    /\ page = NoPage
    /\ dashboard = NoDashboard
    /\ nops = 0

NextSignup == \E p \in Procs : CreateUserStep(p) \/ Return(p)

SpecSignup == InitSignup /\ [][NextSignup]_vars

(* ---------------------------------------------------------------------- *)
(* Redemption through the item page, with listings edited meanwhile        *)
(* ---------------------------------------------------------------------- *)

InitPage ==
    /\ users = SeedApproved.users
    /\ items = SeedApproved.items
    /\ log = SeedApproved.log
    /\ orders = <<>>
    /\ tx = [p \in Procs |-> IdleTx]
    /\ page = NoPage
    /\ dashboard = NoDashboard
    /\ nops = 0

NextPage ==
    \/ LoadItemData
    \/ HandleSwapInsufficient
    \/ UpdateItem
    \/ \E p \in Procs :
          \/ HandleSwapRequest(p)
          \/ SwapInsufficient(p)
          \/ SwapGetBuyer(p)
          \/ SwapItemNotAvailable(p)
          \/ SwapGetItem(p)
          \/ SwapCommit(p)
          \/ SwapRetry(p)
          \/ Return(p)

SpecPage == InitPage /\ [][NextPage]_vars

(* ---------------------------------------------------------------------- *)
(* Two concurrent redemptions of the approved listing i1 by two buyers     *)
(* ---------------------------------------------------------------------- *)

OtherUser(u) == CHOOSE v \in Users : v # u

OtherProc(p) == CHOOSE q \in Procs : q # p

InitRace ==
    /\ users = SeedApproved.users
    /\ items = SeedApproved.items
    /\ log = SeedApproved.log
    /\ orders = <<>>
    /\ \E b \in Users, a1 \in OrderAmounts, a2 \in OrderAmounts, s \in SellerInputs :
          /\ users[b].points >= OrZero(a1)
          /\ users[OtherUser(b)].points >= OrZero(a2)
          /\ tx = [p \in Procs |->
                     IF p = "p1" THEN SwapRequest("i1", b, s, a1, "completed")
                     ELSE SwapRequest("i1", OtherUser(b), s, a2, "completed")]
    /\ page = NoPage
    /\ dashboard = NoDashboard
    /\ nops = 0

NextRace ==
    \E p \in Procs :
        \/ SwapGetBuyer(p)
        \/ SwapGetItem(p)
        \/ SwapItemNotAvailable(p)
        \/ SwapCommit(p)
        \/ SwapRetry(p)

SpecRace == InitRace /\ [][NextRace]_vars

(* ---------------------------------------------------------------------- *)
(* The core operations together with the plain updates                     *)
(* ---------------------------------------------------------------------- *)

NextEdit ==
    \/ CreateItem
    \/ UpdateItem
    \/ UpdateUser
    \/ UpdateSwapOrder
    \/ \E p \in Procs :
          \/ Return(p)
          \/ StartCreateSwapOrder(p)
          \/ SwapBuyerNotFound(p)
          \/ SwapInsufficient(p)
          \/ SwapGetBuyer(p)
          \/ SwapItemNotAvailable(p)
          \/ SwapGetItem(p)
          \/ SwapCommit(p)
          \/ SwapRetry(p)
          \/ ModerateItemStep(p)

SpecEdit == Init /\ [][NextEdit]_vars

(* ---------------------------------------------------------------------- *)
(* awardPoints with every amount a caller can pass                         *)
(* ---------------------------------------------------------------------- *)

NextAward ==
    \E p \in Procs :
        \/ StartAwardPoints(p, AwardAmounts)
        \/ AwardPointsStep(p)
        \/ Return(p)

SpecAward == Init /\ [][NextAward]_vars

(* ---------------------------------------------------------------------- *)
(* Listings that are never moderated: createItem, updateItem and           *)
(* createSwapOrder from stores without an approved listing.  Within MaxOps *)
(* writes no listing is edited while a redemption of it is at its commit,  *)
(* so no commit is refused here.                                           *)
(* ---------------------------------------------------------------------- *)

InitUnmoderated == Init /\ \A i \in ItemIds : items[i].status # "approved"

NextUnmoderated ==
    \/ CreateItem
    \/ UpdateItem
    \/ \E p \in Procs :
          \/ Return(p)
          \/ StartCreateSwapOrder(p)
          \/ SwapBuyerNotFound(p)
          \/ SwapInsufficient(p)
          \/ SwapGetBuyer(p)
          \/ SwapItemNotAvailable(p)
          \/ SwapGetItem(p)
          \/ SwapCommit(p)

SpecUnmoderated == InitUnmoderated /\ [][NextUnmoderated]_vars

(* ---------------------------------------------------------------------- *)
(* One call under contention: other clients keep writing the account u1    *)
(* and the listing i1 while the call is in flight                          *)
(* ---------------------------------------------------------------------- *)

\* the version a document gets from a write of another client: versions are
\* only compared with the versions read, so any version that differs from
\* the current one and from every version read by a call in flight (held)
\* stands for the next one
OtherVersion(ver, held) ==
    CHOOSE v \in 1..(Cardinality(Procs) + 2) : v # ver /\ v \notin held

\* another client calls updateUser("u1", {name}): lastActive is written
ContendUser ==
    /\ users' = [users EXCEPT !["u1"] =
                    [@ EXCEPT !.ver = OtherVersion(@, {tx[p].userSnap.ver : p \in Procs})]]
    /\ UNCHANGED <<items, orders, log, tx, page, dashboard, nops>>

\* another client calls updateItem("i1", {images})
ContendItem ==
    /\ items' = [items EXCEPT !["i1"] =
                    [@ EXCEPT !.ver = OtherVersion(@, {tx[p].itemSnap.ver : p \in Procs})]]
    /\ UNCHANGED <<users, orders, log, tx, page, dashboard, nops>>

\* the calls put under contention, one at a time
ContendedCalls ==
    {[IdleTx EXCEPT !.pc = "ap_get", !.op = "awardPoints", !.userId = "u1",
                    !.amount = a] : a \in PositiveAmounts}
    \cup {SwapRequest("i1", b, s, a, st) :
             b \in Users, s \in SellerInputs, a \in OrderAmounts, st \in CarriedStatus}
    \cup {[IdleTx EXCEPT !.pc = "mod_getItem", !.op = "moderateItem", !.itemId = "i1",
                         !.approved = a, !.notes = "undefined"] : a \in BOOLEAN}

InitContend ==
    /\ \E s \in {SeedPending, SeedApproved} :
          /\ users = s.users
          /\ items = s.items
          /\ log = s.log
    /\ orders = <<>>
    /\ \E call \in ContendedCalls :
          tx = [p \in Procs |-> IF p = "p1" THEN call ELSE IdleTx]
    /\ page = NoPage
    /\ dashboard = NoDashboard
    /\ nops = 0

\* the steps of a call in flight
Running(p) ==
    \/ AwardPointsGet(p)
    \/ AwardPointsCommit(p)
    \/ AwardPointsRetry(p)
    \/ SwapInsufficient(p)
    \/ SwapGetBuyer(p)
    \/ SwapItemNotAvailable(p)
    \/ SwapGetItem(p)
    \/ SwapCommit(p)
    \/ SwapRetry(p)
    \/ ModerateGetItem(p)
    \/ ModerateGetOwner(p)
    \/ ModerateCommit(p)
    \/ ModerateRetry(p)

NextContend ==
    \/ ContendUser
    \/ ContendItem
    \/ \E p \in Procs : Running(p)

\* an async call goes on once the promise it awaits is settled; the other
\* clients are under no obligation
SpecContend ==
    InitContend /\ [][NextContend]_vars /\ \A p \in Procs : WF_vars(Running(p))

(* ---------------------------------------------------------------------- *)
(* Concurrent credits and debits of one account: u1 owns both listings     *)
(* ---------------------------------------------------------------------- *)

\* the store after createUser for u1 and u2, createItem twice by u1 and
\* moderateItem("i1", true)
SeedOwner ==
    [users |-> SeedApproved.users,
     items |-> [SeedApproved.items EXCEPT !["i2"] =
                   NewItemDoc([NoItemDoc EXCEPT !.ownerId = "u1", !.pointValue = {60}])],
     log |-> SeedApproved.log]

InitOwner ==
    /\ users = SeedOwner.users
    /\ items = SeedOwner.items
    /\ log = SeedOwner.log
    /\ orders = <<>>
    /\ tx = [p \in Procs |-> IdleTx]
    /\ page = NoPage
    /\ dashboard = NoDashboard
    /\ nops = 0

NextOwner ==
    \E p \in Procs :
        \/ Return(p)
        \/ StartAwardPoints(p, PositiveAmounts)
        \/ AwardPointsGet(p)
        \/ AwardPointsCommit(p)
        \/ AwardPointsRetry(p)
        \/ StartCreateSwapOrder(p)
        \/ SwapInsufficient(p)
        \/ SwapGetBuyer(p)
        \/ SwapItemNotAvailable(p)
        \/ SwapGetItem(p)
        \/ SwapCommit(p)
        \/ SwapRetry(p)
        \/ StartModerateItem(p)
        \/ ModerateGetItem(p)
        \/ ModerateGetOwner(p)
        \/ ModerateCommit(p)
        \/ ModerateRetry(p)

SpecOwner == InitOwner /\ [][NextOwner]_vars

(* ---------------------------------------------------------------------- *)
(* Two moderateItem(listing, true) calls for the same listing              *)
(* ---------------------------------------------------------------------- *)

ApproveRequest(i, n) ==
    [IdleTx EXCEPT !.pc = "mod_getItem", !.op = "moderateItem", !.itemId = i,
                   !.approved = TRUE, !.notes = n]

InitTwice ==
    /\ users = SeedOwner.users
    /\ items = SeedOwner.items
    /\ log = SeedOwner.log
    /\ orders = <<>>
    /\ \E i \in ItemIds, n1 \in NoteInputs, n2 \in NoteInputs :
          tx = [p \in Procs |-> IF p = "p1" THEN ApproveRequest(i, n1)
                                ELSE ApproveRequest(i, n2)]
    /\ page = NoPage
    /\ dashboard = NoDashboard
    /\ nops = 0

NextTwice ==
    \E p \in Procs :
        \/ ModerateGetItem(p)
        \/ ModerateGetOwner(p)
        \/ ModerateCommit(p)
        \/ ModerateRetry(p)

SpecTwice == InitTwice /\ [][NextTwice]_vars

(* ---------------------------------------------------------------------- *)
(* Listings submitted through the form                                     *)
(* ---------------------------------------------------------------------- *)

NextSubmit ==
    \E p \in Procs :
        \/ StartHandleSubmit(p)
        \/ SubmitNoImages(p)
        \/ SubmitCreateItem(p)
        \/ SubmitUploadFails(p)
        \/ SubmitUpload(p)
        \/ SubmitUpdateItem(p)
        \/ Return(p)

SpecSubmit == InitSignup /\ [][NextSubmit]_vars

(* ---------------------------------------------------------------------- *)
(* Orders after their creation: the ledger operations, moderateItem and    *)
(* updateSwapOrder while a listing is approved or already in transit       *)
(* ---------------------------------------------------------------------- *)

\* SeedApproved after createSwapOrder({itemId: "i1", buyerId: "u2",
\* sellerId: "u1", pointsAmount: 60})
SeedInTransit ==
    [users |-> [SeedApproved.users EXCEPT !["u2"] =
                   [@ EXCEPT !.points = @ - 60, !.ver = @ + 1]],
     items |-> [SeedApproved.items EXCEPT !["i1"] =
                   [@ EXCEPT !.status = "in-transit", !.ver = @ + 1]],
     log |-> Append(SeedApproved.log, SpentRecord("u2", 60, 1)),
     orders |-> <<NewOrder(SwapRequest("i1", "u2", "u1", {60}, "undefined"))>>]

\* moderateItem(itemId, approved) called without notes
StartModerateNoNotes(p) ==
    /\ StartModerateItem(p)
    /\ tx'[p].notes = "undefined"

InitEscrow ==
    /\ \E s \in {SeedApproved @@ [orders |-> <<>>], SeedInTransit} :
          /\ users = s.users
          /\ items = s.items
          /\ log = s.log
          /\ orders = s.orders
    /\ tx = [p \in Procs |-> IdleTx]
    /\ page = NoPage
    /\ dashboard = NoDashboard
    /\ nops = 0

NextEscrow ==
    \/ UpdateSwapOrder
    \/ \E p \in Procs :
          \/ Return(p)
          \/ StartAwardPoints(p, PositiveAmounts)
          \/ AwardPointsGet(p)
          \/ AwardPointsCommit(p)
          \/ AwardPointsRetry(p)
          \/ StartCreateSwapOrder(p)
          \/ SwapInsufficient(p)
          \/ SwapGetBuyer(p)
          \/ SwapItemNotAvailable(p)
          \/ SwapGetItem(p)
          \/ SwapCommit(p)
          \/ SwapRetry(p)
          \/ StartModerateNoNotes(p)
          \/ ModerateGetItem(p)
          \/ ModerateGetOwner(p)
          \/ ModerateCommit(p)
          \/ ModerateRetry(p)

SpecEscrow == InitEscrow /\ [][NextEscrow]_vars

(* ---------------------------------------------------------------------- *)
(* Calls that name a document the store does not hold                      *)
(* ---------------------------------------------------------------------- *)

\* the store after createUser for u1 and createItem with ownerId u2, an
\* identity for which createUser has not run: listing i2 and account u2 do
\* not exist
SeedOrphan ==
    [users |-> [u \in Users |-> IF u = "u1" THEN NewUserDoc(NoUserDoc) ELSE NoUserDoc],
     items |-> [i \in ItemIds |->
                  IF i = "i1"
                  THEN NewItemDoc([NoItemDoc EXCEPT !.ownerId = "u2", !.pointValue = {60}])
                  ELSE NoItemDoc],
     log |-> <<>>]

InitSparse ==
    /\ users = SeedOrphan.users
    /\ items = SeedOrphan.items
    /\ log = SeedOrphan.log
    /\ orders = <<>>
    /\ tx = [p \in Procs |-> IdleTx]
    /\ page = NoPage
    /\ dashboard = NoDashboard
    /\ nops = 0

NextSparse ==
    \/ CreateItem
    \/ \E p \in Procs :
          \/ Return(p)
          \/ StartCreateUser(p)
          \/ CreateUserGet(p)
          \/ CreateUserCommit(p)
          \/ CreateUserRetry(p)
          \/ StartAwardPoints(p, PositiveAmounts)
          \/ AwardPointsGet(p)
          \/ AwardPointsNoUser(p)
          \/ AwardPointsCommit(p)
          \/ AwardPointsRetry(p)
          \/ StartModerateItem(p)
          \/ ModerateNotFound(p)
          \/ ModerateGetItem(p)
          \/ ModerateGetOwner(p)
          \/ ModerateCommit(p)
          \/ ModerateRetry(p)

SpecSparse == InitSparse /\ [][NextSparse]_vars

(* ---------------------------------------------------------------------- *)
(* The reads: getUser, getItem, getUserTransactions                        *)
(* ---------------------------------------------------------------------- *)

\* codes with which getDoc and getDocs reject
ReadFailureCodes == {"unavailable", "permission-denied"}

ReadOps == {"getUser", "getItem", "getUserTransactions"}

\* pageSize = 20
DefaultPageSize == 20

\* null, the value getUser and getItem return for a document not found
Null == {}

StartGetUser(p) ==
    /\ CanStart(p)
    /\ \E u \in Users :
          tx' = [tx EXCEPT ![p] = [IdleTx EXCEPT !.pc = "gu_get", !.op = "getUser",
                                                  !.userId = u]]
    /\ UNCHANGED <<users, items, orders, log, page, dashboard, nops>>

\* getDoc resolves: null when the document does not exist, else its data
GetUserReturns(p) ==
    /\ tx[p].pc = "gu_get"
    /\ tx' = [tx EXCEPT ![p] =
                 [Finished(@) EXCEPT !.result =
                     <<IF users[tx[p].userId].exists THEN {users[tx[p].userId]} ELSE Null>>]]
    /\ UNCHANGED <<users, items, orders, log, page, dashboard, nops>>

\* getDoc rejects: the catch logs the error and returns null
GetUserFails(p) ==
    /\ tx[p].pc = "gu_get"
    /\ \E code \in ReadFailureCodes :
          tx' = [tx EXCEPT ![p] = [Ended(@) EXCEPT !.error = code, !.result = <<Null>>]]
    /\ UNCHANGED <<users, items, orders, log, page, dashboard, nops>>

StartGetItem(p) ==
    /\ CanStart(p)
    /\ \E i \in ItemIds :
          tx' = [tx EXCEPT ![p] = [IdleTx EXCEPT !.pc = "gi_get", !.op = "getItem",
                                                  !.itemId = i]]
    /\ UNCHANGED <<users, items, orders, log, page, dashboard, nops>>

GetItemReturns(p) ==
    /\ tx[p].pc = "gi_get"
    /\ tx' = [tx EXCEPT ![p] =
                 [Finished(@) EXCEPT !.result =
                     <<IF items[tx[p].itemId].exists THEN {items[tx[p].itemId]} ELSE Null>>]]
    /\ UNCHANGED <<users, items, orders, log, page, dashboard, nops>>

GetItemFails(p) ==
    /\ tx[p].pc = "gi_get"
    /\ \E code \in ReadFailureCodes :
          tx' = [tx EXCEPT ![p] = [Ended(@) EXCEPT !.error = code, !.result = <<Null>>]]
    /\ UNCHANGED <<users, items, orders, log, page, dashboard, nops>>

RECURSIVE Reverse(_)
Reverse(seq) == IF seq = <<>> THEN <<>> ELSE Append(Reverse(Tail(seq)), Head(seq))

RecordsOf(u) == SelectSeq(log, LAMBDA r : r.userId = u)

\* where userId == u, orderBy createdAt desc, limit pageSize
UserHistory(u, pageSize) ==
    LET newestFirst == Reverse(RecordsOf(u))
    IN  IF Len(newestFirst) <= pageSize THEN newestFirst
        ELSE SubSeq(newestFirst, 1, pageSize)

StartGetUserTransactions(p) ==
    /\ CanStart(p)
    /\ \E u \in Users :
          tx' = [tx EXCEPT ![p] = [IdleTx EXCEPT !.pc = "gt_get",
                                                  !.op = "getUserTransactions",
                                                  !.userId = u]]
    /\ UNCHANGED <<users, items, orders, log, page, dashboard, nops>>

GetUserTransactionsReturns(p) ==
    /\ tx[p].pc = "gt_get"
    /\ tx' = [tx EXCEPT ![p] =
                 [Finished(@) EXCEPT !.result =
                     <<UserHistory(tx[p].userId, DefaultPageSize)>>]]
    /\ UNCHANGED <<users, items, orders, log, page, dashboard, nops>>

\* getDocs rejects: the catch logs the error and returns []
GetUserTransactionsFails(p) ==
    /\ tx[p].pc = "gt_get"
    /\ \E code \in ReadFailureCodes :
          tx' = [tx EXCEPT ![p] = [Ended(@) EXCEPT !.error = code, !.result = <<<<>>>>]]
    /\ UNCHANGED <<users, items, orders, log, page, dashboard, nops>>

InitRead ==
    /\ \E s \in Seeds \cup {SeedOrphan} :
          /\ users = s.users
          /\ items = s.items
          /\ log = s.log
    /\ orders = <<>>
    /\ tx = [p \in Procs |-> IdleTx]
    /\ page = NoPage
    /\ dashboard = NoDashboard
    /\ nops = 0

NextRead ==
    \/ CreateItem
    \/ \E p \in Procs :
          \/ Return(p)
          \/ StartGetUser(p)
          \/ GetUserReturns(p)
          \/ GetUserFails(p)
          \/ StartGetItem(p)
          \/ GetItemReturns(p)
          \/ GetItemFails(p)
          \/ StartGetUserTransactions(p)
          \/ GetUserTransactionsReturns(p)
          \/ GetUserTransactionsFails(p)

SpecRead == InitRead /\ [][NextRead]_vars

(* ---------------------------------------------------------------------- *)
(* The impact dashboard                                                    *)
(* ---------------------------------------------------------------------- *)

InitImpact ==
    /\ users = SeedEmpty.users
    /\ items = SeedEmpty.items
    /\ log = SeedEmpty.log
    /\ orders = <<>>
    /\ tx = [p \in Procs |-> IdleTx]
    /\ page = NoPage
    /\ dashboard = NoDashboard
    /\ nops = 0

NextImpact == RenderImpact \/ SetUserItemCount

SpecImpact == InitImpact /\ [][NextImpact]_vars

(* ---------------------------------------------------------------------- *)
(* Claims                                                                  *)
(* ---------------------------------------------------------------------- *)

\* process p ends a createSwapOrder call in this step
SwapEnds(p) == tx[p].op = "createSwapOrder" /\ tx[p].pc # "done" /\ tx'[p].pc = "done"

SwapCommits(p) == SwapEnds(p) /\ tx'[p].error = "none"

SwapFails(p) == SwapEnds(p) /\ tx'[p].error # "none"

NonNegativeBalances == \A u \in Users : users[u].points >= 0

\* the buyer check of createSwapOrder runs against a balance below the price
BuyerCheckTooLow(p) ==
    /\ tx[p].pc = "cso_getBuyer"
    /\ tx'[p] # tx[p]
    /\ users[tx[p].userId].exists
    /\ users[tx[p].userId].points < pointsNeeded(p)

\* C1: every account's balance is >= 0 in every reachable state; a
\* createSwapOrder whose price exceeds the buyer's current balance fails with
\* "Insufficient points" and leaves the balance unchanged, and no
\* createSwapOrder commits while its price exceeds the buyer's balance at that
\* moment, however many redemptions of the buyer are in flight.
C1_BalanceNeverNegative ==
    /\ []NonNegativeBalances
    /\ [][\A p \in Procs :
            /\ BuyerCheckTooLow(p) =>
                  /\ SwapFails(p)
                  /\ tx'[p].error = "Insufficient points"
                  /\ users' = users
            /\ SwapCommits(p) =>
                  /\ users[tx[p].userId].points >= pointsNeeded(p)
                  /\ users'[tx[p].userId].points =
                        users[tx[p].userId].points - pointsNeeded(p)]_vars

\* C1 witness: a buyer's second redemption, in flight while the first one
\* committed, was run again and failed for lack of points
C1_Witness ==
    \E p \in Procs :
        /\ tx[p].pc = "done"
        /\ tx[p].op = "createSwapOrder"
        /\ tx[p].error = "Insufficient points"
        /\ tx[p].attempts > 0
        /\ Len(orders) = 1
        /\ orders[1].buyerId = tx[p].userId
        /\ users[tx[p].userId].points >= 0

\* C2 (as claimed): for every account the amounts of its pointsTransactions
\* records sum to its stored points balance, in every reachable state.
C2_LedgerMatchesBalance ==
    \A u \in Users : users[u].exists => SumAmounts(log, u) = users[u].points


RaceOver == \A p \in Procs : tx[p].pc = "done"

\* C3: of two concurrent createSwapOrder requests by two buyers with
\* sufficient balance for the same approved listing, under every interleaving
\* exactly one commits (one SwapOrder, one spent record) and the other ends
\* with "Item not available" and its buyer's balance as it was.
C3_ExactlyOneRedeems ==
    /\ Len(orders) <= 1
    /\ RaceOver =>
         \E w \in Procs :
            /\ tx[w].error = "none"
            /\ tx[OtherProc(w)].error = "Item not available"
            /\ Len(orders) = 1
            /\ orders[1].buyerId = tx[w].userId
            /\ orders[1].itemId = "i1"
            /\ log = Append(SeedApproved.log,
                            SpentRecord(tx[w].userId, OrZero(orders[1].pointsAmount), 1))
            /\ users[tx[OtherProc(w)].userId] = SeedApproved.users[tx[OtherProc(w)].userId]

\* C3 witness: both requests are over and the losing one had reached its
\* commit, was refused and run again
C3_Witness ==
    /\ RaceOver
    /\ \E p \in Procs : tx[p].error = "Item not available" /\ tx[p].attempts > 0

\* C4: a createSwapOrder that fails a precondition (buyer missing, balance
\* too low, listing missing, listing not approved) leaves users, items,
\* swapOrders and pointsTransactions exactly as they were.
C4_FailedRedemptionWritesNothing ==
    [][\A p \in Procs :
         SwapFails(p) =>
            /\ tx'[p].error \in {"Buyer not found", "Insufficient points",
                                 "Item not found", "Item not available"}
            /\ UNCHANGED <<users, items, orders, log>>]_vars

\* C4 witness: a redemption of a listing already in transit has failed
C4_Witness ==
    \E p \in Procs :
        /\ tx[p].pc = "done"
        /\ tx[p].op = "createSwapOrder"
        /\ tx[p].error = "Item not available"
        /\ items[tx[p].itemId].status = "in-transit"

\* the point value of the listing a createSwapOrder call names
ListingPrice(p) == OrZero(items[tx[p].itemId].pointValue)

\* C5 (as claimed): a createSwapOrder call by a buyer with balance b >= p for
\* an approved listing priced p commits in one step: balance b - p, one new
\* pending SwapOrder, the listing in transit, one spent record of -p for the
\* new order, and nothing else changed.
C5_RedeemDebitsListingPrice ==
    [][\A p \in Procs :
         ( /\ SwapEnds(p)
           /\ items[tx[p].itemId].exists
           /\ items[tx[p].itemId].status = "approved"
           /\ ~Falsy(items[tx[p].itemId].pointValue)
           /\ users[tx[p].userId].exists
           /\ users[tx[p].userId].points >= ListingPrice(p) ) =>
            /\ tx'[p].error = "none"
            /\ users' = [users EXCEPT ![tx[p].userId] =
                            [@ EXCEPT !.points = @ - ListingPrice(p), !.ver = @ + 1]]
            /\ Len(orders') = Len(orders) + 1
            /\ SubSeq(orders', 1, Len(orders)) = orders
            /\ orders'[Len(orders')].status = "pending"
            /\ items' = [items EXCEPT ![tx[p].itemId] =
                            [@ EXCEPT !.status = "in-transit", !.ver = @ + 1]]
            /\ log' = Append(log, SpentRecord(tx[p].userId, ListingPrice(p),
                                              Len(orders) + 1))]_vars

\* a step creates a SwapOrder or takes points from an account
OrderOrDebit ==
    \/ orders' # orders
    \/ \E u \in Users : users'[u].points < users[u].points

\* C6: createSwapOrder commits only if the listing, as it is in the store at
\* the commit, is approved; no SwapOrder is created and no points are debited
\* in any other step.
C6_RedeemedOnlyWhileApproved ==
    [][/\ \A p \in Procs :
            SwapCommits(p) =>
               /\ items[tx[p].itemId].exists
               /\ items[tx[p].itemId].status = "approved"
       /\ OrderOrDebit => \E p \in Procs : SwapCommits(p)]_vars

\* C6 witness: a redemption committed after it was refused once and read the
\* listing again
C6_Witness ==
    \E p \in Procs :
        /\ tx[p].pc = "done"
        /\ tx[p].op = "createSwapOrder"
        /\ tx[p].error = "none"
        /\ tx[p].attempts > 0
        /\ tx[p].orderId = Len(orders)
        /\ orders[tx[p].orderId].itemId = tx[p].itemId
        /\ items[tx[p].itemId].status = "in-transit"

\* C7 (as claimed): the amount createSwapOrder compares with the balance,
\* debits and records on the SwapOrder and on the spent record is the point
\* value of the listing as stored, never the amount of the request.
C7_AmountIsListingPointValue ==
    [][\A p \in Procs :
         SwapCommits(p) =>
            /\ users'[tx[p].userId].points = users[tx[p].userId].points - ListingPrice(p)
            /\ orders'[Len(orders')].pointsAmount = items[tx[p].itemId].pointValue
            /\ log'[Len(log')].amount = -ListingPrice(p)]_vars

\* C8 (as claimed): a createSwapOrder for a listing without a point value
\* fails: no SwapOrder, no debit, no log record, the listing stays approved.
C8_NoPointValueNotRedeemed ==
    [][\A p \in Procs :
         (SwapEnds(p) /\ items[tx[p].itemId].exists
                      /\ Falsy(items[tx[p].itemId].pointValue)) =>
            /\ tx'[p].error # "none"
            /\ UNCHANGED <<users, items, orders, log>>]_vars

\* process p commits a moderateItem call in this step
ModerateCommits(p) ==
    /\ tx[p].op = "moderateItem"
    /\ tx[p].pc # "done"
    /\ tx'[p].pc = "done"
    /\ tx'[p].error = "none"

C10_RejectionMovesNoPoints ==
    [][\A p \in Procs :
         (ModerateCommits(p) /\ ~tx[p].approved) =>
            /\ items' = [items EXCEPT ![tx[p].itemId] =
                            [@ EXCEPT !.status = "rejected",
                                      !.moderationNotes = OrEmpty(tx[p].notes),
                                      !.ver = @ + 1]]
            /\ UNCHANGED <<users, orders, log>>]_vars

\* C10 witness: a listing has been rejected with the notes of scenario D
C10_Witness ==
    \E p \in Procs :
        /\ tx[p].pc = "done"
        /\ tx[p].op = "moderateItem"
        /\ tx[p].error = "none"
        /\ items[tx[p].itemId].status = "rejected"
        /\ items[tx[p].itemId].moderationNotes = "low quality images"
        /\ log = <<>>

\* the edges of the listing workflow
StatusEdges ==
    {<<"pending", "approved">>, <<"pending", "rejected">>,
     <<"approved", "in-transit">>, <<"in-transit", "completed">>}

\* C11 (as claimed): across createItem, moderateItem, createSwapOrder and
\* updateItem a listing's status changes only along pending->approved,
\* pending->rejected, approved->in-transit and in-transit->completed; a
\* rejected or completed listing never changes status again and no listing
\* goes from in-transit or rejected back to approved.
C11_StatusFollowsWorkflow ==
    [][\A i \in ItemIds :
         (items[i].exists /\ items'[i].status # items[i].status) =>
            <<items[i].status, items'[i].status>> \in StatusEdges]_vars

\* a call of one of the given operations commits in this step
Commits(ops) ==
    \E p \in Procs :
        /\ tx[p].op \in ops
        /\ tx[p].pc # "done"
        /\ tx'[p].pc = "done"
        /\ tx'[p].error = "none"

\* createItem adds a listing in this step
ListingAdded == \E i \in ItemIds : ~items[i].exists /\ items'[i].exists

PointsOrStatusChange ==
    \/ \E u \in Users : users'[u].points # users[u].points
    \/ \E i \in ItemIds : items'[i].status # items[i].status

\* C12 (as claimed): points balances and listing statuses change only in a
\* commit of createSwapOrder, moderateItem or awardPoints, or when createUser
\* or createItem initialises them; updateUser, updateItem and updateSwapOrder
\* leave all points and all statuses as they were for every payload.
C12_OnlyWorkflowsMovePointsAndStatus ==
    [][PointsOrStatusChange =>
          \/ Commits({"createSwapOrder", "moderateItem", "awardPoints", "createUser"})
          \/ ListingAdded]_vars

\* process p ends a createUser call in this step
CreateUserEnds(p) == tx[p].op = "createUser" /\ tx[p].pc # "done" /\ tx'[p].pc = "done"

\* C13: the first createUser for an identity creates the account with
\* points = 100 whatever points the request carried; every later or
\* concurrent createUser for that identity succeeds and leaves the account,
\* its current balance included, as it is; accounts appear in no other way.
C13_WelcomeBonusOnce ==
    [][/\ \A p \in Procs :
            CreateUserEnds(p) =>
               /\ tx'[p].error = "none"
               /\ users' = IF users[tx[p].userId].exists THEN users
                           ELSE [users EXCEPT ![tx[p].userId] =
                                    [exists |-> TRUE, points |-> 100, ver |-> 1]]
               /\ UNCHANGED <<items, orders, log>>
       /\ (\E u \in Users : ~users[u].exists /\ users'[u].exists) =>
             \E p \in Procs : CreateUserEnds(p)]_vars

\* C13 witness: of two concurrent createUser calls for one identity the
\* second was refused at its commit, run again and found the account
C13_Witness ==
    \E p \in Procs :
        /\ tx[p].pc = "done" /\ tx[p].op = "createUser" /\ tx[p].attempts > 0
        /\ tx[p].error = "none"
        /\ tx[OtherProc(p)].pc = "done" /\ tx[OtherProc(p)].op = "createUser"
        /\ tx[OtherProc(p)].userId = tx[p].userId
        /\ users[tx[p].userId].points = 100

\* process p ends an awardPoints call in this step
AwardEnds(p) == tx[p].op = "awardPoints" /\ tx[p].pc # "done" /\ tx'[p].pc = "done"

\* C14 (as claimed): awardPoints requires amount > 0: a committed call raises
\* the balance by amount and appends one earned record of that amount, and a
\* call with amount <= 0 commits nothing (balance and log unchanged).
C14_AwardRequiresPositiveAmount ==
    [][\A p \in Procs :
         AwardEnds(p) =>
            IF tx[p].amount > 0 /\ tx'[p].error = "none"
            THEN /\ users'[tx[p].userId].points > users[tx[p].userId].points
                 /\ users'[tx[p].userId].points = users[tx[p].userId].points + tx[p].amount
                 /\ log' = Append(log, [userId |-> tx[p].userId, amount |-> tx[p].amount,
                                        type |-> "earned", relatedOrderId |-> 0])
            ELSE /\ tx'[p].error # "none"
                 /\ UNCHANGED <<users, log>>]_vars

\* C15 (as claimed): createItem stores the listing with status pending and
\* riskScore 0 whatever status and riskScore itemData carries, changes no
\* balance and appends no record; and, no moderateItem call being made, no
\* listing is redeemed (no createSwapOrder commits).
C15_NewListingPendingUntilModerated ==
    [][/\ \A i \in ItemIds :
            (~items[i].exists /\ items'[i].exists) =>
               /\ items'[i].status = "pending"
               /\ items'[i].riskScore = 0
               /\ UNCHANGED <<users, orders, log>>
       /\ \A p \in Procs : ~SwapCommits(p)]_vars

\* C16: for every itemCount n >= 0 calculateImpact(n) returns co2Saved with
\* 10 * co2Saved = 85 * n, waterSaved = 2700 * n and wasteDiverted with
\* 10 * wasteDiverted = 5 * n; computing it leaves the store as it is and the
\* result is determined by n.
C16_ImpactIsLinear ==
    /\ dashboard.rendered =>
          LET n == dashboard.userItemCount
              m == dashboard.userMetrics
          IN /\ 10 * m.co2Saved.num = 85 * n * m.co2Saved.den
             /\ m.waterSaved.num = 2700 * n * m.waterSaved.den
             /\ 10 * m.wasteDiverted.num = 5 * n * m.wasteDiverted.den
             /\ m = calculateImpact(n)
    /\ users = SeedEmpty.users /\ items = SeedEmpty.items
    /\ orders = <<>> /\ log = <<>>

\* C16 witness: scenario E, the metrics of 10 items (85.0, 27000, 5.0)
C16_Witness ==
    /\ dashboard.rendered
    /\ dashboard.userItemCount = 10
    /\ dashboard.userMetrics =
          [co2Saved |-> Q(850, 10), waterSaved |-> Q(27000, 1), wasteDiverted |-> Q(50, 10)]

\* the failures of a precondition, by the error thrown where it is checked
AccountNotFound == {"Buyer not found", "User not found"}

ListingNotFound == {"Item not found"}

FailureKinds ==
    {AccountNotFound, {"Insufficient points"}, {"Item not available"}, ListingNotFound}

\* the messages a caller receives for a failure of the store itself
StoreFailureMessages ==
    {handleApiError("", ""), handleApiError("unavailable", ""),
     handleApiError("aborted", "")}

\* the failed calls whose error is of kind k
FailedAs(k) == {p \in Procs : tx[p].pc = "done" /\ tx[p].error \in k}

\* C17 (as claimed): the error a caller of createSwapOrder, awardPoints or
\* moderateItem receives for a failed precondition tells which one failed:
\* the messages for account not found, insufficient balance, item
\* unavailable and listing not found differ from one another and from the
\* message for an unexpected or transient failure of the store.
C17_FailureIsIdentified ==
    /\ \A k \in FailureKinds : \A p \in FailedAs(k) :
           tx[p].message \notin StoreFailureMessages
    /\ \A k1 \in FailureKinds, k2 \in FailureKinds :
           k1 # k2 => \A p \in FailedAs(k1), q \in FailedAs(k2) :
                         tx[p].message # tx[q].message

\* C18: every call of createSwapOrder, moderateItem and awardPoints in
\* flight eventually commits or returns a failure to its caller, also while
\* other clients keep writing the documents it reads.
C18_EveryCallEnds ==
    \A p \in Procs : (tx[p].pc \notin {"idle", "done"}) ~> (tx[p].pc = "done")

\* C18 witness: a call was refused at every attempt and has returned the
\* store's error to its caller
C18_Witness ==
    \E p \in Procs :
        /\ tx[p].pc = "done"
        /\ tx[p].attempts = MaxAttempts
        /\ tx[p].error \in ContentionCodes
        /\ tx[p].message = handleApiError(tx[p].error, "")

\* C19: with balance-changing transactions on one account running
\* concurrently (approvals of two listings of one owner, an approval and the
\* owner's own redemption, awardPoints calls), in every state the balance is
\* the balance the account was created with plus the amounts of all committed
\* transactions, each of which has appended its record: no committed credit
\* or debit is overwritten.
C19_NoLostUpdate ==
    \A u \in Users : users[u].points = WelcomeBonus + SumAmounts(log, u)

\* C19 witness: two approvals of different listings of u1 ran concurrently,
\* the second was refused once and run again, and both credits are in the
\* balance
C19_Witness ==
    \E p \in Procs :
        /\ tx[p].pc = "done" /\ tx[OtherProc(p)].pc = "done"
        /\ tx[p].op = "moderateItem" /\ tx[OtherProc(p)].op = "moderateItem"
        /\ tx[p].error = "none" /\ tx[OtherProc(p)].error = "none"
        /\ tx[p].itemId # tx[OtherProc(p)].itemId
        /\ tx[p].attempts > 0
        /\ Len(log) = Len(SeedOwner.log) + 2
        /\ users["u1"].points = SeedOwner.users["u1"].points + 2 * ApprovalReward

ItemUnavailable == {"Item not found", "Item not available"}

\* C21 (as claimed): whenever the listing does not exist or is not approved,
\* createSwapOrder fails with ItemUnavailable whoever the buyer is, also when
\* the buyer has no account or too few points.
C21_ListingCheckedFirst ==
    [][\A p \in Procs :
         ( /\ SwapEnds(p)
           /\ \/ ~items[tx[p].itemId].exists
              \/ items[tx[p].itemId].status # "approved" ) =>
            tx'[p].error \in ItemUnavailable]_vars

\* C22 (as claimed): every SwapOrder has as its seller the owner of the
\* listing it references, and its listing and its buyer account exist.
C22_SellerIsListingOwner ==
    \A o \in 1..Len(orders) :
        /\ items[orders[o].itemId].exists
        /\ users[orders[o].buyerId].exists
        /\ orders[o].sellerId = items[orders[o].itemId].ownerId

\* the submission of process p has ended with a failed upload
UploadFailedFor(p) ==
    /\ tx[p].pc = "done"
    /\ tx[p].op = "handleSubmit"
    /\ tx[p].error \in StorageCodes \cup {FileError(f) : f \in {"text", "huge"}}

\* C23: in handleSubmit a failure of uploadItemImages after createItem has
\* committed is not rolled back: the listing stays in the store with status
\* pending and no images, and updateItem is never called for it (the listing
\* is as createItem wrote it).
C23_FailedUploadLeavesListing ==
    \A p \in Procs :
        UploadFailedFor(p) =>
           /\ items[tx[p].itemId].exists
           /\ items[tx[p].itemId].status = "pending"
           /\ items[tx[p].itemId].images = {}
           /\ items[tx[p].itemId].ver = 1
           /\ items[tx[p].itemId].ownerId = tx[p].userId

\* C23 witness: a form with an image and a text file was submitted; the
\* listing was created and the upload refused
C23_Witness ==
    \E p \in Procs :
        /\ UploadFailedFor(p)
        /\ tx[p].error = FileError("text")
        /\ tx[p].message = "An unexpected error occurred"
        /\ items[tx[p].itemId].exists
        /\ items[tx[p].itemId].images = {}

\* an order is changed in place in this step
OrderUpdated ==
    /\ Len(orders') = Len(orders)
    /\ orders' # orders

\* a step raises the balance of an account
Credit == \E u \in Users : users'[u].points > users[u].points

\* C24: no operation releases escrow: updateSwapOrder, whatever status it
\* sets, changes only the SwapOrder; every credit is a commit of awardPoints
\* or moderateItem whose record names no order; no record of type refunded
\* is ever appended and the only records that name an order are the spent
\* records of createSwapOrder.
C24_EscrowNeverReleased ==
    [][/\ OrderUpdated => UNCHANGED <<users, items, log>>
       /\ Credit =>
             /\ Commits({"awardPoints", "moderateItem"})
             /\ Len(log') = Len(log) + 1
             /\ log'[Len(log')].type = "earned"
             /\ log'[Len(log')].relatedOrderId = 0
       /\ \A k \in 1..Len(log') :
             (k > Len(log) \/ log'[k] # log[k]) =>
                /\ log'[k].type # "refunded"
                /\ log'[k].relatedOrderId # 0 =>
                      (log'[k].type = "spent" /\ Commits({"createSwapOrder"}))]_vars

\* C24 witness: the order of a committed redemption was set to disputed and
\* the buyer is still without the points
C24_Witness ==
    /\ Len(orders) = 1
    /\ orders[1].status = "disputed"
    /\ orders[1].buyerId = "u2"
    /\ users["u2"].points = SeedInTransit.users["u2"].points
    /\ log = SeedInTransit.log

\* the call of p in operation op ends in this step
CallEnds(p, op) ==
    /\ tx[p].op = op
    /\ tx[p].pc # "done"
    /\ tx'[p].pc = "done"

\* C25: moderateItem on a listing id that does not exist fails with
\* ListingNotFound and awardPoints on an account id that does not exist
\* fails with AccountNotFound; the call does nothing else and nothing is
\* written: no listing or account is created, no balance changes and no
\* record is appended.
C25_MissingDocumentFailsWithoutWrite ==
    [][\A p \in Procs :
         /\ ( /\ tx[p].op = "moderateItem"
              /\ tx[p].pc \notin {"idle", "done"}
              /\ ~items[tx[p].itemId].exists
              /\ tx'[p] # tx[p] ) =>
                /\ CallEnds(p, "moderateItem")
                /\ tx'[p].error \in ListingNotFound
                /\ UNCHANGED <<users, items, orders, log>>
         /\ ( /\ tx[p].op = "awardPoints"
              /\ tx[p].pc \notin {"idle", "done"}
              /\ ~users[tx[p].userId].exists
              /\ tx'[p] # tx[p] ) =>
                /\ CallEnds(p, "awardPoints")
                /\ tx'[p].error \in AccountNotFound
                /\ UNCHANGED <<users, items, orders, log>>]_vars

\* C25 witness: both calls have failed, one of each kind, and the store is
\* as it was
C25_Witness ==
    /\ \E p \in FailedAs(ListingNotFound) : tx[p].op = "moderateItem" /\ tx[p].itemId = "i2"
    /\ \E p \in FailedAs(AccountNotFound) : tx[p].op = "awardPoints" /\ tx[p].userId = "u2"
    /\ ~items["i2"].exists
    /\ ~users["u2"].exists
    /\ log = <<>>

C26_StoreFailureIsReported ==
    [][\A p \in Procs :
         /\ (\E op \in ReadOps : CallEnds(p, op)) =>
               (tx'[p].error \in ReadFailureCodes => tx'[p].message # "")
         /\ (CallEnds(p, "getUser") /\ tx'[p].result = <<Null>>) =>
               ~users[tx[p].userId].exists
         /\ (CallEnds(p, "getItem") /\ tx'[p].result = <<Null>>) =>
               ~items[tx[p].itemId].exists
         /\ (CallEnds(p, "getUserTransactions") /\ tx'[p].result = <<<<>>>>) =>
               RecordsOf(tx[p].userId) = <<>>]_vars

\* the orders that reference listing i
OrdersFor(i) == {o \in 1..Len(orders) : orders[o].itemId = i}

\* the debits made for an order of listing i
DebitsFor(i) ==
    {k \in 1..Len(log) : log[k].type = "spent" /\ log[k].relatedOrderId \in OrdersFor(i)}

RecordsFor(o) == {k \in 1..Len(log) : log[k].relatedOrderId = o}

\* C28 (as claimed): in every reachable state every SwapOrder has exactly
\* one ledger record that names it, of type spent, for the order's buyer and
\* of amount minus the order's pointsAmount; every spent record names an
\* existing SwapOrder; every listing in transit is referenced by a SwapOrder.
C28_OrdersMatchLedger ==
    /\ \A o \in 1..Len(orders) :
          /\ Cardinality(RecordsFor(o)) = 1
          /\ \A k \in RecordsFor(o) :
                /\ log[k].type = "spent"
                /\ log[k].userId = orders[o].buyerId
                /\ log[k].amount = 0 - OrZero(orders[o].pointsAmount)
    /\ \A k \in 1..Len(log) :
          log[k].type = "spent" => log[k].relatedOrderId \in 1..Len(orders)
    /\ \A i \in ItemIds :
          items[i].status = "in-transit" => OrdersFor(i) # {}

\* C30 (as claimed): a user never redeems their own listing: no SwapOrder
\* has as buyer the owner of the listing it references, nor a buyerId equal
\* to its sellerId.
C30_NoSelfRedemption ==
    \A o \in 1..Len(orders) :
        /\ orders[o].buyerId # items[orders[o].itemId].ownerId
        /\ orders[o].buyerId # orders[o].sellerId

====
